---- MODULE Spec2Model ----
(***************************************************************************)
(* A model of src/homework3/quiz3/xs.c: the 16-byte xs cell (a union of an *)
(* inline character array, a bit-field view of its last byte and a heap    *)
(* view ptr/size/capacity), the heap blocks it points to, and the          *)
(* operations xs_new, xs_cpy, xs_free, xs_grow, xs_concat and xs_trim.     *)
(*                                                                         *)
(* A cell is the sequence of its 16 bytes (index 1 is byte 0).  The three  *)
(* views of the union are decoded from those bytes as the x86-64 ABI lays  *)
(* them out: ptr is bytes 0..7, size is the low 54 bits of bytes 8..15,    *)
(* capacity is the next 6 bits (the top two bits of byte 14 and the low    *)
(* nibble of byte 15), space_left is the low nibble of byte 15, is_ptr is  *)
(* bit 4 and is_large_string bit 5 of byte 15.  The address of heap block  *)
(* number n is the integer n; the null pointer is 0.                       *)
(*                                                                         *)
(* malloc always returns a block of the size asked for (the abstract       *)
(* machine with no resource limit).  An operation whose behaviour          *)
(* the C standard leaves undefined (a write outside an object, a use of a  *)
(* freed block, a second free, an overlapping memcpy) sets ub and ends the *)
(* run: no statement about the result of such an operation holds.         *)
(***************************************************************************)
EXTENDS Integers, Sequences, FiniteSets, TLC

VARIABLES xsv, heap, ub, last, nops

vars == <<xsv, heap, ub, last, nops>>

(***************************************************************************)
(* Program constants.                                                      *)
(***************************************************************************)
MAX_STR_LEN_BITS == 54

STACK_SIZE == 15

LARGE_STRING_LEN == 256

\* Bytes of the refcount prefix of a large block: the "+ 4" of lines 70 and 136.
RefcntBytes == 4

(***************************************************************************)
(* Bounds of the model.                                                    *)
(***************************************************************************)
\* Operations performed in one run.
MaxOps == 3

(***************************************************************************)
(* size_t values that do not fit a model integer are kept as two digits in *)
(* base 2^30: [hi, lo] stands for hi * 2^30 + lo.                          *)
(***************************************************************************)
Base == 2^30

W(n) == [hi |-> 0, lo |-> n]

LeW(a, b) == a.hi < b.hi \/ (a.hi = b.hi /\ a.lo <= b.lo)

\* 1UL << c
Pow2W(c) == IF c < 30 THEN [hi |-> 0, lo |-> 2^c] ELSE [hi |-> 2^(c - 30), lo |-> 0]

\* (1UL << c) - 1
Pow2Minus1W(c) ==
    IF c <= 30 THEN [hi |-> 0, lo |-> 2^c - 1]
    ELSE [hi |-> 2^(c - 30) - 1, lo |-> Base - 1]

\* (1UL << MAX_STR_LEN_BITS) - 1
MAX_STR_LEN == Pow2Minus1W(MAX_STR_LEN_BITS)

RECURSIVE FloorLog2(_)
FloorLog2(n) == IF n <= 1 THEN 0 ELSE 1 + FloorLog2(n \div 2)

\* What __builtin_clz may return for 0: its result is undefined there.  bsr
\* leaves 31 on the build at hand, lzcnt gives 32, and any other bit count is
\* allowed.
ClzOfZero == {0, 31, 32}

\* ilog2((uint32_t) len), z being what __builtin_clz returns for 0.  The
\* argument is cut to 32 bits, i.e. to the two low bits of hi and lo.
ilog2(len, z) ==
    IF len.hi % 4 >= 2 THEN 31
    ELSE IF len.hi % 4 = 1 THEN 30
    ELSE IF len.lo = 0 THEN 32 - z - 1
    ELSE FloorLog2(len.lo)

(***************************************************************************)
(* The cell and its views.                                                 *)
(***************************************************************************)
Names == {"string", "prefix", "suffix"}

\* The local xs of xs_concat (line 242) and the local array of xs_grow (line 168).
Tmps == "tmps"

Buf == "buf"

SetByte(c, i, b) == [c EXCEPT ![i] = b]

FlagByte(c) == c[16]

xs_is_ptr(c) == (FlagByte(c) \div 16) % 2 = 1

xs_is_large_string(c) == (FlagByte(c) \div 32) % 2 = 1

space_left(c) == FlagByte(c) % 16

\* x->capacity: 6 bits, bits 54..59 of the second word.
capacity_field(c) == (c[15] \div 64) + 4 * (c[16] % 16)

\* x->size: 54 bits, bits 0..53 of the second word (the model's lengths stay
\* below 2^24, so the three low bytes carry it; the others must be 0).
size_field(c) == c[9] + 256 * c[10] + 65536 * c[11]

\* x->ptr: bytes 0..7; -1 stands for an address that is no block's.
ptr_field(c) ==
    IF \A i \in 3..8 : c[i] = 0 THEN c[1] + 256 * c[2] ELSE -1

set_is_ptr(c, b) ==
    SetByte(c, 16, c[16] - 16 * ((c[16] \div 16) % 2) + 16 * b)

set_is_large_string(c, b) ==
    SetByte(c, 16, c[16] - 32 * ((c[16] \div 32) % 2) + 32 * b)

\* x->space_left = v: the value is cut to the 4 bits of the field.
set_space_left(c, v) ==
    SetByte(c, 16, c[16] - (c[16] % 16) + (v % 16))

\* x->capacity = k: the value is cut to the 6 bits of the field.
set_capacity(c, k) ==
    LET k6 == k % 64
        c1 == SetByte(c, 15, (c[15] % 64) + 64 * (k6 % 4))
    IN  SetByte(c1, 16, c1[16] - (c1[16] % 16) + (k6 \div 4))

\* x->size = s (s < 2^24 in the model).
set_size_field(c, s) ==
    SubSeq(c, 1, 8)
        \o <<s % 256, (s \div 256) % 256, (s \div 65536) % 256, 0, 0, 0,
             64 * (c[15] \div 64), c[16]>>

\* x->ptr = p
set_ptr(c, p) == <<p % 256, p \div 256, 0, 0, 0, 0, 0, 0>> \o SubSeq(c, 9, 16)

xs_literal_empty == <<0, 0, 0, 0, 0, 0, 0, 0, 0, 0, 0, 0, 0, 0, 0, 15>>

xs_size(c) == IF xs_is_ptr(c) THEN size_field(c) ELSE STACK_SIZE - space_left(c)

xs_set_size(c, s) ==
    IF ~xs_is_ptr(c) THEN set_space_left(c, STACK_SIZE - s) ELSE set_size_field(c, s)

xs_capacity(c) ==
    IF xs_is_ptr(c) THEN Pow2Minus1W(capacity_field(c)) ELSE W(15)

(***************************************************************************)
(* The machine an operation runs on: the cells, the heap, and a record of  *)
(* what the operation did (the exponent xs_allocate computed, the malloc   *)
(* requests, the blocks handed to free, the branch xs_concat took), and    *)
(* the choices the environment makes for it: whether malloc fails, and the *)
(* value a flag byte that was never written reads as.                      *)
(***************************************************************************)
\* n bytes b
Rep(b, n) == [i \in 1..n |-> b] \o <<>>

NoTrace == [k |-> -1, kundef |-> FALSE, req |-> <<>>, freed |-> <<>>,
            cow |-> FALSE, branch |-> "none", null |-> FALSE, flagsundef |-> FALSE]

\* The locals start as the code declares them: tmps is xs_literal_empty(), buf
\* is not initialised (-1: a byte never written).
Machine(v, h) ==
    [v |-> [x \in Names \cup {Tmps, Buf} |->
                IF x \in Names THEN v[x]
                ELSE IF x = Tmps THEN xs_literal_empty
                ELSE Rep(-1, 16)],
     h |-> h, ub |-> "none", t |-> NoTrace, ret |-> 0, oom |-> FALSE, u |-> 0]

\* The machine in which malloc returns NULL (fail), and in which a flag byte
\* never written reads as u.
Env(M, fail, u) == [M EXCEPT !.oom = fail, !.u = u]

Ok(M) == M.ub = "none"

Ub(M, what) == IF Ok(M) THEN [M EXCEPT !.ub = what] ELSE M

SetCell(M, x, c) == IF Ok(M) THEN [M EXCEPT !.v[x] = c] ELSE M

\* A char pointer: into the cell named cell, or (cell = "") into heap block
\* id, base bytes after the block's start.
CellPtr(x) == [cell |-> x, id |-> 0, base |-> 0]

HeapPtr(id, base) == [cell |-> "", id |-> id, base |-> base]

IsBlock(M, id) == id \in 1..Len(M.h)

Live(M, id) == IsBlock(M, id) /\ ~M.h[id].freed

\* The n bytes at p + off lie in one live object.
CanAccess(M, p, off, n) ==
    IF p.cell # "" THEN off + n <= 16
    ELSE /\ Live(M, p.id)
         /\ M.h[p.id].extra = p.base
         /\ LeW(W(off + n), Pow2W(M.h[p.id].exp))

\* The bytes of the object p points into, from p on (-1: never written).
Bytes(M, p) == IF p.cell # "" THEN M.v[p.cell] ELSE M.h[p.id].bytes

ByteAt(bs, i) == IF i <= Len(bs) THEN bs[i] ELSE -1

\* bs, continued with bytes never written up to n bytes.
Pad(bs, n) == IF Len(bs) >= n THEN bs ELSE bs \o Rep(-1, n - Len(bs))

MemRead(M, p, off, n) == SubSeq(Pad(Bytes(M, p), off + n), off + 1, off + n)

Overlay(old, off, bs) ==
    SubSeq(Pad(old, off), 1, off) \o bs \o SubSeq(old, off + Len(bs) + 1, Len(old))

MemWrite(M, p, off, bs) ==
    IF ~Ok(M) THEN M
    ELSE IF ~CanAccess(M, p, off, Len(bs)) THEN Ub(M, "write outside a live object")
    ELSE IF Len(bs) = 0 THEN M
    ELSE IF p.cell # "" THEN [M EXCEPT !.v[p.cell] = Overlay(@, off, bs)]
    ELSE [M EXCEPT !.h[p.id].bytes = Overlay(@, off, bs)]

SameObject(p, q) == p.cell = q.cell /\ p.id = q.id

\* memcpy(dst + doff, src + soff, n): the objects must not overlap.
memcpy(M, dst, doff, src, soff, n) ==
    IF ~Ok(M) THEN M
    ELSE IF ~CanAccess(M, dst, doff, n) THEN Ub(M, "write outside a live object")
    ELSE IF ~CanAccess(M, src, soff, n) THEN Ub(M, "access outside a live object")
    ELSE IF n > 0 /\ SameObject(dst, src) /\ doff < soff + n /\ soff < doff + n
         THEN Ub(M, "memcpy of overlapping objects")
    ELSE MemWrite(M, dst, doff, MemRead(M, src, soff, n))

\* memmove(dst + doff, src + soff, n)
memmove(M, dst, doff, src, soff, n) ==
    IF ~Ok(M) THEN M
    ELSE IF ~CanAccess(M, dst, doff, n) THEN Ub(M, "write outside a live object")
    ELSE IF ~CanAccess(M, src, soff, n) THEN Ub(M, "access outside a live object")
    ELSE MemWrite(M, dst, doff, MemRead(M, src, soff, n))

\* malloc(2^exp + extra) returns (ret) the new block, the last one of the
\* heap, or the null pointer.
malloc(M, exp, extra) ==
    IF ~Ok(M) THEN M
    ELSE IF M.oom
         THEN [M EXCEPT !.ret = 0, !.t.null = TRUE,
                        !.t.req = Append(@, [exp |-> exp, extra |-> extra])]
    ELSE [M EXCEPT !.h = Append(@, [exp |-> exp, extra |-> extra, rc |-> 0,
                                    bytes |-> <<>>, freed |-> FALSE]),
                   !.ret = Len(M.h) + 1,
                   !.t.req = Append(@, [exp |-> exp, extra |-> extra])]

\* free(p)
free(M, id) ==
    IF ~Ok(M) \/ id = 0 THEN M
    ELSE IF ~IsBlock(M, id) THEN Ub(M, "free of no block")
    ELSE IF M.h[id].freed THEN Ub(M, "double free")
    ELSE [M EXCEPT !.h[id] = [@ EXCEPT !.freed = TRUE, !.bytes = <<>>, !.rc = 0],
                   !.t.freed = Append(@, [id |-> id, extra |-> M.h[id].extra,
                                             rc |-> M.h[id].rc])]

\* *((int *) x->ptr): the block must be live and hold a count.
CanCount(M, x) ==
    LET id == ptr_field(M.v[x]) IN Live(M, id) /\ M.h[id].extra = RefcntBytes

xs_set_refcnt(M, x, val) ==
    IF ~Ok(M) THEN M
    ELSE IF ~CanCount(M, x) THEN Ub(M, "count of no live large block")
    ELSE [M EXCEPT !.h[ptr_field(M.v[x])].rc = val]

xs_inc_refcnt(M, x) ==
    IF ~Ok(M) \/ ~xs_is_large_string(M.v[x]) THEN M
    ELSE IF ~CanCount(M, x) THEN Ub(M, "count of no live large block")
    ELSE [M EXCEPT !.h[ptr_field(M.v[x])].rc = @ + 1]

\* xs_dec_refcnt changes the machine and returns the count: the machine ...
xs_dec_refcnt(M, x) ==
    IF ~Ok(M) \/ ~xs_is_large_string(M.v[x]) THEN M
    ELSE IF ~CanCount(M, x) THEN Ub(M, "count of no live large block")
    ELSE [M EXCEPT !.h[ptr_field(M.v[x])].rc = @ - 1]

\* ... and the count it returns, read in the machine it leaves.
xs_get_refcnt(M, x) ==
    IF ~xs_is_large_string(M.v[x]) \/ ~CanCount(M, x) THEN 0
    ELSE M.h[ptr_field(M.v[x])].rc

\* xs_get_refcnt reads through x->ptr: undefined if the block is gone.
RefcntReadable(M, x) == ~xs_is_large_string(M.v[x]) \/ CanCount(M, x)

xs_data(M, x) ==
    LET c == M.v[x]
    IN  IF ~xs_is_ptr(c) THEN CellPtr(x)
        ELSE IF xs_is_large_string(c) THEN HeapPtr(ptr_field(c), RefcntBytes)
        ELSE HeapPtr(ptr_field(c), 0)

xs_newempty(M, x) == SetCell(M, x, xs_literal_empty)

\* xs_free without the test of the count: the buffer of a heap-backed value
\* is freed whatever the decremented count is.
xs_free_whatever_count(M, x) ==
    LET c == M.v[x]
        release(M1) ==
            IF Ok(M1) /\ xs_is_ptr(c) THEN free(M1, ptr_field(c)) ELSE M1
    IN  xs_newempty(release(IF xs_is_ptr(c) THEN xs_dec_refcnt(M, x) ELSE M), x)

xs_free(M, x) ==
    LET c == M.v[x]
        release(M1) ==
            IF Ok(M1) /\ xs_is_ptr(c) /\ xs_get_refcnt(M1, x) <= 0
            THEN free(M1, ptr_field(c)) ELSE M1
    IN  xs_newempty(release(IF xs_is_ptr(c) THEN xs_dec_refcnt(M, x) ELSE M), x)

xs_allocate(M, x, len, z) ==
    LET k == ilog2(len, z) + 1
        \* x->capacity = ilog2(len) + 1
        setcap ==
            IF Ok(M)
            THEN [M EXCEPT !.v[x] = set_capacity(@, k), !.t.k = k,
                           !.t.kundef = (len.hi % 4 = 0 /\ len.lo = 0)]
            ELSE M
        mark(M2) == SetCell(M2, x, set_is_large_string(M2.v[x], 1))
        \* x->ptr = malloc((1UL << x->capacity) + extra); x->is_ptr = 1
        alloc(M3, extra) == malloc(M3, capacity_field(M3.v[x]), extra)
        point(M4) == SetCell(M4, x, set_is_ptr(set_ptr(M4.v[x], M4.ret), 1))
        rest(M2) ==
            IF ~Ok(M2) THEN M2
            ELSE IF LeW(W(LARGE_STRING_LEN), len)
                 THEN xs_set_refcnt(point(alloc(mark(M2), RefcntBytes)), x, 1)
            ELSE IF ~LeW(len, W(STACK_SIZE)) THEN point(alloc(M2, 0))
            ELSE M2
    IN  rest(xs_free(setcap, x))

xs_new(M, x, p, z) ==
    LET len == Len(p)
        copy(M1) == MemWrite(M1, xs_data(M1, x), 0, Append(p, 0))
        setsize(M2) == SetCell(M2, x, xs_set_size(M2.v[x], len))
    IN  setsize(copy(xs_allocate(M, x, W(len), z)))

xs_grow(M, x, len, z) ==
    LET c   == M.v[x]
        isp == xs_is_ptr(c)
        \* Backup first
        backup == IF isp THEN xs_data(M, x) ELSE CellPtr(Buf)
        f   == IF isp THEN ptr_field(c) ELSE 0
        saved ==
            IF isp THEN SetCell(M, x, set_is_ptr(c, 0))
            ELSE memcpy(M, CellPtr(Buf), 0, CellPtr(x), 0, 16)
        restore(M2) ==
            IF Ok(M2)
            THEN memcpy(M2, xs_data(M2, x), 0, backup, 0, xs_size(M2.v[x]))
            ELSE M2
        release(M3) == IF f # 0 THEN free(M3, f) ELSE M3
    IN  IF ~Ok(M) \/ LeW(len, xs_capacity(c)) THEN M
        ELSE release(restore(xs_allocate(saved, x, len, z)))

xs_cpy(M, dest, src, z) ==
    LET assign(M1) == SetCell(M1, dest, M1.v[src])
        unptr(M2) == SetCell(M2, dest, set_is_ptr(M2.v[dest], 0))
        copy(M4, len) ==
            IF Ok(M4)
            THEN memcpy(M4, xs_data(M4, dest), 0, xs_data(M4, src), 0, len + 1)
            ELSE M4
        rest(M2, len) ==
            IF ~Ok(M2) THEN M2
            ELSE IF len >= LARGE_STRING_LEN THEN xs_inc_refcnt(M2, src)
            ELSE IF len > STACK_SIZE
                 THEN copy(xs_allocate(unptr(M2), dest, W(len), z), len)
            ELSE M2
        sized(M2) == rest(M2, xs_size(M2.v[src]))
    IN  sized(assign(xs_free(M, dest)))

xs_cow_lazy_copy(M, x, z) ==
    LET data == xs_data(M, x)
        unptr(M1) == SetCell(M1, x, set_is_ptr(M1.v[x], 0))
        alloc(M2) ==
            IF Ok(M2) THEN xs_allocate(M2, x, W(xs_size(M2.v[x])), z) ELSE M2
        copy(M3) ==
            IF Ok(M3)
            THEN memcpy(M3, xs_data(M3, x), 0, data, 0, size_field(M3.v[x]) + 1)
            ELSE M3
        copied(M4) == [M4 EXCEPT !.t.cow = TRUE]
    IN  IF ~Ok(M) THEN M
        ELSE IF ~RefcntReadable(M, x) THEN Ub(M, "count of no live large block")
        ELSE IF xs_get_refcnt(M, x) <= 1 THEN M
        \* Lazy copy
        ELSE copied(copy(alloc(unptr(xs_dec_refcnt(M, x)))))

xs_concat(M, string, prefix, suffix, z) ==
    LET pres     == xs_size(M.v[prefix])
        sufs     == xs_size(M.v[suffix])
        size     == xs_size(M.v[string])
        capacity == xs_capacity(M.v[string])
        total    == size + pres + sufs
        took(M9, b) == [M9 EXCEPT !.t.branch = b]
        rest(M1) ==
            LET pre  == xs_data(M1, prefix)
                suf  == xs_data(M1, suffix)
                data == xs_data(M1, string)
                shift(M2) == memmove(M2, data, pres, data, 0, size)
                putpre(M3) == memcpy(M3, data, 0, pre, 0, pres)
                putsuf(M4) == memcpy(M4, data, pres + size, suf, 0, sufs + 1)
                \* The suffix's terminator may be a byte never written: copied
                \* into byte 15 of an inline string it is the flags read next.
                flags(M5) ==
                    IF Ok(M5) /\ FlagByte(M5.v[string]) = -1
                    THEN [M5 EXCEPT !.v[string] = SetByte(@, 16, M5.u),
                                    !.t.flagsundef = TRUE]
                    ELSE M5
                setsize(M5) ==
                    IF ~Ok(M5) THEN M5
                    ELSE IF xs_is_ptr(M5.v[string])
                         THEN SetCell(M5, string, set_size_field(M5.v[string], total))
                    ELSE SetCell(M5, string, set_space_left(M5.v[string], 15 - total))
                fresh(T2) ==
                    LET tmpdata == xs_data(T2, Tmps)
                        putold(T3) == memcpy(T3, tmpdata, pres, data, 0, size)
                        tmppre(T4) == memcpy(T4, tmpdata, 0, pre, 0, pres)
                        tmpsuf(T5) == memcpy(T5, tmpdata, pres + size, suf, 0, sufs + 1)
                        assign(T6) ==
                            IF Ok(T6)
                            THEN SetCell(T6, string, set_size_field(T6.v[Tmps], total))
                            ELSE T6
                    IN  assign(xs_free(tmpsuf(tmppre(putold(T2))), string))
            IN  IF ~Ok(M1) THEN M1
                ELSE IF LeW(W(total), capacity)
                     THEN setsize(flags(putsuf(putpre(shift(took(M1, "in place"))))))
                ELSE fresh(xs_grow(SetCell(took(M1, "fresh"), Tmps, xs_literal_empty),
                                   Tmps, W(total), z))
    IN  rest(xs_cow_lazy_copy(M, string, z))

\* check_bit(b) after set_bit of every byte of trimset
check_bit(trimset, b) == \E j \in 1..Len(trimset) : trimset[j] = b

\* The indices (from 1) of the bytes of bs that are not in the mask.
Kept(trimset, bs, slen) == {j \in 1..slen : ~check_bit(trimset, bs[j])}

\* A first loop that stops after one byte (a wrong xs_trim, for comparison).
LeadingRunAtMostOne(trimset, bs, slen) ==
    IF slen > 0 /\ check_bit(trimset, bs[1]) THEN 1 ELSE 0

\* The i the first loop of xs_trim ends with: it stops at the first byte that
\* is not in the mask, at slen if there is none.
LeadingRun(trimset, bs, slen) ==
    LET S == Kept(trimset, bs, slen)
    IN  IF S = {} THEN slen ELSE (CHOOSE j \in S : \A k \in S : j <= k) - 1

\* The slen the second loop of xs_trim ends with: it stops below the last byte
\* that is not in the mask, at 0 if there is none.
TrailingRun(trimset, bs, slen) ==
    LET S == Kept(trimset, bs, slen)
    IN  IF S = {} THEN 0 ELSE CHOOSE j \in S : \A k \in S : k <= j

xs_trim(M, x, trimset, z) ==
    LET rest(M1) ==
            LET orig == xs_data(M1, x)
                slen == xs_size(M1.v[x])
                scan(bs) ==
                    LET i    == LeadingRun(trimset, bs, slen)
                        send == TrailingRun(trimset, bs, slen)
                        \* slen -= i, in size_t: below 0 it wraps to
                        \* 2^64 - (i - send)
                        n    == send - i
                        terminate(M2) ==
                            IF ~Ok(M2) THEN M2
                            ELSE IF ~CanAccess(M2, orig, n, 1)
                                 THEN Ub(M2, "access outside a live object")
                            ELSE IF ByteAt(Bytes(M2, orig), n + 1) # 0
                                 THEN MemWrite(M2, orig, n, <<0>>)
                            ELSE M2
                        setsize(M3) == SetCell(M3, x, xs_set_size(M3.v[x], n))
                    IN  IF \E j \in 1..slen : bs[j] = -1
                        THEN Ub(M1, "read of a byte never written")
                        ELSE IF n < 0 THEN Ub(M1, "memmove of more than 2^63 bytes")
                        ELSE setsize(terminate(memmove(M1, orig, 0, orig, i, n)))
            IN  IF ~Ok(M1) THEN M1
                ELSE IF slen > 0 /\ ~CanAccess(M1, orig, 0, slen)
                     THEN Ub(M1, "access outside a live object")
                ELSE scan(MemRead(M1, orig, 0, slen))
    IN  IF ~Ok(M) \/ Len(trimset) = 0 THEN M
        ELSE rest(xs_cow_lazy_copy(M, x, z))

(***************************************************************************)
(* The inputs.                                                             *)
(***************************************************************************)
\* "\n foobarbar \n\n\n", "(((" and ")))" of main.
StrMain == <<10, 32, 102, 111, 111, 98, 97, 114, 98, 97, 114, 32, 10, 10, 10>>

StrPre == <<40, 40, 40>>

StrSuf == <<41, 41, 41>>

\* Only blanks: every byte is in the trim set "\n ".
StrBlank == <<32, 32, 32>>

\* 20 bytes, the medium range: "  ab" and 16 blanks.
StrMedium == <<32, 32, 97, 98>> \o Rep(32, 16)

\* 300 bytes, the large range: " ab" and 297 blanks.
StrLarge == <<32, 97, 98>> \o Rep(32, 297)

\* The byte strings xs_new is given, by name.
Input(name) ==
    CASE name = "empty" -> <<>>
      [] name = "main" -> StrMain
      [] name = "blank" -> StrBlank
      [] name = "medium" -> StrMedium
      [] name = "large" -> StrLarge

Inputs == {"empty", "main", "blank", "medium", "large"}

TrimSets == {"none", "blanks"}

\* The lengths xs_grow is given, by name: 20, and 2^60, which is one more than
\* the capacity of every heap value.
Target(name) == IF name = "20" THEN W(20) ELSE Pow2W(60)

GrowTargets == {"20", "2^60"}

\* The trim sets, by name: "" and "\n " (main).
TrimSet(name) == IF name = "none" THEN <<>> ELSE <<10, 32>>

(***************************************************************************)
(* The state machine: the three values of main, and any operation on them. *)
(***************************************************************************)
Init ==
    /\ xsv = [x \in Names |-> xs_literal_empty]
    /\ heap = <<>>
    /\ ub = "none"
    /\ last = [op |-> "init", x |-> "", y |-> "", z |-> "", arg |-> "",
               t |-> NoTrace, rep |-> FALSE]
    /\ nops = 0

Ready == ub = "none" /\ nops < MaxOps

(***************************************************************************)
(* Addresses are arbitrary, and a block no value points to is never        *)
(* reached again: after each operation the blocks are renumbered in the    *)
(* order string, prefix, suffix point to them, and the others are dropped. *)
(***************************************************************************)
NameSeq == <<"string", "prefix", "suffix">>

Pos(x) == CHOOSE i \in 1..3 : NameSeq[i] = x

Pointing(v) == {x \in Names : xs_is_ptr(v[x]) /\ ptr_field(v[x]) > 0}

\* The first value, in the order of NameSeq, that points where x points.
First(v, x) ==
    CHOOSE y \in Pointing(v) :
        /\ ptr_field(v[y]) = ptr_field(v[x])
        /\ \A w \in Pointing(v) : ptr_field(v[w]) = ptr_field(v[x]) => Pos(y) <= Pos(w)

Firsts(v) == {First(v, x) : x \in Pointing(v)}

NewId(v, x) == Cardinality({y \in Firsts(v) : Pos(y) <= Pos(First(v, x))})

\* The value that points to the block renumbered i.
Owner(v, i) == CHOOSE y \in Firsts(v) : NewId(v, y) = i

CompactCells(v) ==
    [x \in Names |-> IF x \in Pointing(v) THEN set_ptr(v[x], NewId(v, x)) ELSE v[x]]

CompactHeap(v, h) ==
    [i \in 1..Cardinality(Firsts(v)) |-> h[ptr_field(v[Owner(v, i)])]] \o <<>>

\* The operation's result becomes the state; rep: it is the operation before
\* it, on the same operands, once more.
Step(M, op, x, y, z, arg) ==
    /\ xsv' = CompactCells(M.v)
    /\ heap' = CompactHeap(M.v, M.h)
    /\ ub' = M.ub
    /\ last' = [op |-> op, x |-> x, y |-> y, z |-> z, arg |-> arg, t |-> M.t,
                rep |-> (last.op = op /\ last.x = x /\ last.y = y /\ last.z = z
                         /\ last.arg = arg)]
    /\ nops' = nops + 1

\* __builtin_clz(0) is evaluated only where xs_allocate gets a length whose low
\* 32 bits are 0; elsewhere its value is not drawn.
ClzIf(evaluated) == IF evaluated THEN ClzOfZero ELSE {31}

\* xs_cow_lazy_copy(x) goes on to copy.
Copies(x) ==
    LET M == Machine(xsv, heap) IN RefcntReadable(M, x) /\ xs_get_refcnt(M, x) > 1

\* Values a byte of a malloc block that was never written may read as, by
\* its flag bits: neither flag, is_ptr, is_ptr and is_large_string.
UnwrittenByte == {0, 16, 63}

\* xs_concat reads the flags of string from a byte never written; only then
\* is the value of that byte drawn.
FlagsUnwritten(string, prefix, suffix, fail) ==
    xs_concat(Env(Machine(xsv, heap), fail, 0), string, prefix, suffix, 31).t.flagsundef

FlagsIf(unwritten) == IF unwritten THEN UnwrittenByte ELSE {0}

(***************************************************************************)
(* The operations; fail: the mallocs of the operation return NULL.         *)
(***************************************************************************)
New(x, p, fail) ==
    /\ Ready
    /\ \E z \in ClzIf(Len(Input(p)) = 0) :
          Step(xs_new(Env(Machine(xsv, heap), fail, 0), x, Input(p), z),
               "xs_new", x, "", "", p)

Cpy(dest, src, fail) ==
    /\ Ready
    /\ dest # src
    /\ Step(xs_cpy(Env(Machine(xsv, heap), fail, 0), dest, src, 31),
            "xs_cpy", dest, src, "", "")

Grow(x, len, fail) ==
    /\ Ready
    /\ \E z \in ClzIf(Target(len).hi % 4 = 0 /\ Target(len).lo = 0) :
          Step(xs_grow(Env(Machine(xsv, heap), fail, 0), x, Target(len), z),
               "xs_grow", x, "", "", len)

Concat(string, prefix, suffix, fail) ==
    /\ Ready
    /\ string \notin {prefix, suffix}
    /\ \E z \in ClzIf(Copies(string)),
          u \in FlagsIf(FlagsUnwritten(string, prefix, suffix, fail)) :
          Step(xs_concat(Env(Machine(xsv, heap), fail, u), string, prefix, suffix, z),
               "xs_concat", string, prefix, suffix, "")

Trim(x, trimset, fail) ==
    /\ Ready
    /\ \E z \in ClzIf(Copies(x)) :
          Step(xs_trim(Env(Machine(xsv, heap), fail, 0), x, TrimSet(trimset), z),
               "xs_trim", x, "", "", trimset)

XsNew(x, p) == New(x, p, FALSE)

XsCpy(dest, src) == Cpy(dest, src, FALSE)

XsFree(x) ==
    /\ Ready
    /\ Step(xs_free(Machine(xsv, heap), x), "xs_free", x, "", "", "")

XsGrow(x, len) == Grow(x, len, FALSE)

XsConcat(string, prefix, suffix) == Concat(string, prefix, suffix, FALSE)

XsTrim(x, trimset) == Trim(x, trimset, FALSE)

Next ==
    \/ \E x \in Names, p \in Inputs : XsNew(x, p)
    \/ \E dest \in Names, src \in Names : XsCpy(dest, src)
    \/ \E x \in Names : XsFree(x)
    \/ \E x \in Names, len \in GrowTargets : XsGrow(x, len)
    \/ \E string \in Names, prefix \in Names, suffix \in Names :
          XsConcat(string, prefix, suffix)
    \/ \E x \in Names, trimset \in TrimSets : XsTrim(x, trimset)

\* malloc returns a block whenever it is called.
Spec == Init /\ [][Next]_vars

(***************************************************************************)
(* The same operations where malloc may return NULL.                       *)
(***************************************************************************)
NewOrFail(x, p) == \E fail \in BOOLEAN : New(x, p, fail)

CpyOrFail(dest, src) == \E fail \in BOOLEAN : Cpy(dest, src, fail)

GrowOrFail(x, len) == \E fail \in BOOLEAN : Grow(x, len, fail)

ConcatOrFail(string, prefix, suffix) ==
    \E fail \in BOOLEAN : Concat(string, prefix, suffix, fail)

TrimOrFail(x, trimset) == \E fail \in BOOLEAN : Trim(x, trimset, fail)

NextOOM ==
    \/ \E x \in Names, p \in Inputs : NewOrFail(x, p)
    \/ \E dest \in Names, src \in Names : CpyOrFail(dest, src)
    \/ \E x \in Names : XsFree(x)
    \/ \E x \in Names, len \in GrowTargets : GrowOrFail(x, len)
    \/ \E string \in Names, prefix \in Names, suffix \in Names :
          ConcatOrFail(string, prefix, suffix)
    \/ \E x \in Names, trimset \in TrimSets : TrimOrFail(x, trimset)

SpecOOM == Init /\ [][NextOOM]_vars

(***************************************************************************)
(* The same operations, and the copy-on-write check taken alone.           *)
(***************************************************************************)
XsCowLazyCopy(x) ==
    /\ Ready
    /\ \E z \in ClzIf(Copies(x)) :
          Step(xs_cow_lazy_copy(Machine(xsv, heap), x, z),
               "xs_cow_lazy_copy", x, "", "", "")

NextCow ==
    \/ Next
    \/ \E x \in Names : XsCowLazyCopy(x)

SpecCow == Init /\ [][NextCow]_vars

(***************************************************************************)
(* What a caller observes of a value.                                      *)
(***************************************************************************)
\* The representation the flags of the cell select.
Kind(c) ==
    IF ~xs_is_ptr(c) THEN "inline"
    ELSE IF xs_is_large_string(c) THEN "large" ELSE "medium"

\* The xs_size(x) bytes at xs_data(x); <<-2>> if they and the terminator do
\* not lie in a live object.
Str(v, h, x) ==
    LET M == Machine(v, h)
    IN  IF CanAccess(M, xs_data(M, x), 0, xs_size(v[x]) + 1)
        THEN MemRead(M, xs_data(M, x), 0, xs_size(v[x]))
        ELSE <<-2>>

\* x is a string: its bytes lie in a live object, all were written, and the
\* byte after them is the terminator.
Valid(v, h, x) ==
    LET M == Machine(v, h)
        n == xs_size(v[x])
    IN  /\ CanAccess(M, xs_data(M, x), 0, n + 1)
        /\ \A j \in 1..n : MemRead(M, xs_data(M, x), 0, n + 1)[j] >= 0
        /\ MemRead(M, xs_data(M, x), 0, n + 1)[n + 1] = 0

\* The values whose pointer refers to block id.
Referents(v, id) == {x \in Names : xs_is_ptr(v[x]) /\ ptr_field(v[x]) = id}

\* x and y point to the same block.
SameBuffer(v, x, y) ==
    xs_is_ptr(v[x]) /\ xs_is_ptr(v[y]) /\ ptr_field(v[x]) = ptr_field(v[y])

\* Inline, Medium, or Large with share count 1.
Unshared(v, h, x) ==
    Kind(v[x]) = "large" =>
        (CanCount(Machine(v, h), x) /\ xs_get_refcnt(Machine(v, h), x) = 1)

\* bs without its longest leading and trailing runs of bytes of cs.
Trimmed(bs, cs) ==
    LET keep == {j \in 1..Len(bs) : \A k \in 1..Len(cs) : cs[k] # bs[j]}
    IN  IF keep = {} THEN <<>>
        ELSE SubSeq(bs, CHOOSE j \in keep : \A k \in keep : j <= k,
                        CHOOSE j \in keep : \A k \in keep : k <= j)

(***************************************************************************)
(* The claims.                                                             *)
(***************************************************************************)
\* C1: after xs_concat(target, prefix, suffix) on an unshared target, with
\* prefix and suffix other values, the target's content is prefix + old
\* target + suffix and its length is the sum of the three lengths, in the
\* in-place branch and in the fresh-buffer branch.
ConcatGivesPrefixTargetSuffix ==
    [][(/\ last'.op = "xs_concat"
        /\ Valid(xsv, heap, last'.x)
        /\ Unshared(xsv, heap, last'.x))
       => /\ ub' = "none"
          /\ xs_size(xsv'[last'.x])
               = xs_size(xsv[last'.y]) + xs_size(xsv[last'.x]) + xs_size(xsv[last'.z])
          /\ Str(xsv', heap', last'.x)
               = Str(xsv, heap, last'.y) \o Str(xsv, heap, last'.x)
                     \o Str(xsv, heap, last'.z)]_vars

\* C2: after xs_trim(x, charset) the content of x is the old content without
\* its longest leading and trailing runs of bytes of charset, and the length
\* is the number of bytes left; an empty charset changes nothing and a value
\* made of bytes of charset only becomes the empty string.
TrimRemovesBothRuns ==
    [][(last'.op = "xs_trim" /\ Valid(xsv, heap, last'.x))
       => /\ ub' = "none"
          /\ Str(xsv', heap', last'.x)
               = Trimmed(Str(xsv, heap, last'.x), TrimSet(last'.arg))
          /\ xs_size(xsv'[last'.x])
               = Len(Trimmed(Str(xsv, heap, last'.x), TrimSet(last'.arg)))]_vars

\* C3: xs_cpy of a Large value adds one to the count of its buffer, copies no
\* bytes and leaves both values with the same content; xs_concat or xs_trim
\* of a value that shares a Large buffer leaves the content and the length
\* seen through every other value of that buffer as they were.
LargeCopyIsShared ==
    [][/\ (/\ last'.op = "xs_cpy"
           /\ Kind(xsv[last'.y]) = "large"
           /\ Valid(xsv, heap, last'.y)
           /\ ~SameBuffer(xsv, last'.x, last'.y))
          => /\ ub' = "none"
             /\ last'.t.req = <<>>
             /\ SameBuffer(xsv', last'.x, last'.y)
             /\ xs_get_refcnt(Machine(xsv', heap'), last'.y)
                  = xs_get_refcnt(Machine(xsv, heap), last'.y) + 1
             /\ Str(xsv', heap', last'.x) = Str(xsv, heap, last'.y)
             /\ Str(xsv', heap', last'.y) = Str(xsv, heap, last'.y)
       /\ \A other \in Names :
            (/\ last'.op \in {"xs_concat", "xs_trim"}
             /\ other # last'.x
             /\ Kind(xsv[last'.x]) = "large"
             /\ Kind(xsv[other]) = "large"
             /\ SameBuffer(xsv, last'.x, other)
             /\ Valid(xsv, heap, other))
            => /\ ub' = "none"
               /\ Str(xsv', heap', other) = Str(xsv, heap, other)]_vars

\* C4: after any sequence of operations the count stored in every live Large
\* buffer is the number of values whose pointer refers to that buffer.
CountIsNumberOfReferents ==
    ub = "none" =>
        \A id \in 1..Len(heap) :
            (~heap[id].freed /\ heap[id].extra = RefcntBytes)
                => heap[id].rc = Cardinality(Referents(xsv, id))

\* C5: a buffer is freed at most once, and no operation frees a buffer that
\* a value still points to: no value holds a pointer to freed memory.
NoPointerToFreedMemory ==
    /\ ub \notin {"double free", "free of no block"}
    /\ ub = "none" =>
          \A x \in Names :
              (xs_is_ptr(xsv[x]) /\ IsBlock(Machine(xsv, heap), ptr_field(xsv[x])))
                  => Live(Machine(xsv, heap), ptr_field(xsv[x]))

\* C6: xs_cpy from a Medium value gives dest a new buffer, other than the
\* source's, with the content and the length of the source; after any
\* sequence of operations no two values point to the same Medium buffer.
MediumIsNeverShared ==
    [][/\ (/\ last'.op = "xs_cpy"
           /\ Kind(xsv[last'.y]) = "medium"
           /\ Valid(xsv, heap, last'.y))
          => /\ ub' = "none"
             /\ xs_is_ptr(xsv'[last'.x])
             /\ ~SameBuffer(xsv', last'.x, last'.y)
             /\ xs_size(xsv'[last'.x]) = xs_size(xsv[last'.y])
             /\ Str(xsv', heap', last'.x) = Str(xsv, heap, last'.y)
       /\ ub' = "none" =>
             \A x \in Names, y \in Names :
                 (x # y /\ Kind(xsv'[x]) = "medium") => ~SameBuffer(xsv', x, y)]_vars

\* C7: xs_new of 16 to 255 bytes gives a Medium value of that length whose
\* capacity is 2^k - 1 and whose buffer has 2^k bytes, k = floor(log2(len)) + 1.
MediumNewHasDoublingCapacity ==
    (last.op = "xs_new" /\ Len(Input(last.arg)) \in (STACK_SIZE + 1)..(LARGE_STRING_LEN - 1))
    => /\ ub = "none"
       /\ Kind(xsv[last.x]) = "medium"
       /\ xs_size(xsv[last.x]) = Len(Input(last.arg))
       /\ xs_capacity(xsv[last.x]) = Pow2Minus1W(FloorLog2(Len(Input(last.arg))) + 1)
       /\ last.t.req = <<[exp |-> FloorLog2(Len(Input(last.arg))) + 1, extra |-> 0]>>

\* C8: xs_new of at most 15 bytes gives an Inline value, with no allocation,
\* of that length, capacity 15 and that content; for 0 bytes the exponent
\* xs_allocate computes is a defined value.
InlineNewIsDefined ==
    (last.op = "xs_new" /\ Len(Input(last.arg)) <= STACK_SIZE)
    => /\ ub = "none"
       /\ Kind(xsv[last.x]) = "inline"
       /\ last.t.req = <<>>
       /\ xs_size(xsv[last.x]) = Len(Input(last.arg))
       /\ xs_capacity(xsv[last.x]) = W(15)
       /\ Str(xsv, heap, last.x) = Input(last.arg)
       /\ ~last.t.kundef

\* C9: xs_new of 256 bytes or more gives a Large value of that length, in a
\* buffer of 2^k + 4 bytes with the content 4 bytes after its start and the
\* count 1.
LargeNewHasCountOne ==
    (last.op = "xs_new" /\ Len(Input(last.arg)) >= LARGE_STRING_LEN)
    => /\ ub = "none"
       /\ Kind(xsv[last.x]) = "large"
       /\ xs_size(xsv[last.x]) = Len(Input(last.arg))
       /\ last.t.req = <<[exp |-> FloorLog2(Len(Input(last.arg))) + 1, extra |-> 4]>>
       /\ xs_data(Machine(xsv, heap), last.x).base = 4
       /\ xs_get_refcnt(Machine(xsv, heap), last.x) = 1

\* C10: xs_grow(x, target) changes nothing when the capacity of x covers
\* target; otherwise the capacity is at least target afterwards and the
\* content and the length of x are what they were.
GrowKeepsContent ==
    [][(last'.op = "xs_grow" /\ Valid(xsv, heap, last'.x))
       => IF LeW(Target(last'.arg), xs_capacity(xsv[last'.x]))
          THEN ub' = "none" /\ xsv' = xsv /\ heap' = heap
          ELSE /\ ub' = "none"
               /\ LeW(Target(last'.arg), xs_capacity(xsv'[last'.x]))
               /\ xs_size(xsv'[last'.x]) = xs_size(xsv[last'.x])
               /\ Str(xsv', heap', last'.x) = Str(xsv, heap, last'.x)]_vars

\* C11: in every state reached by the operations, every value has
\* xs_capacity(value) >= xs_size(value).
CapacityCoversSize ==
    ub = "none" =>
        \A x \in Names : LeW(W(xs_size(xsv[x])), xs_capacity(xsv[x]))

ConcatOfEmptiesChangesNothing ==
    [][(/\ last'.op = "xs_concat"
        /\ Valid(xsv, heap, last'.x)
        /\ Valid(xsv, heap, last'.y) /\ xs_size(xsv[last'.y]) = 0
        /\ Valid(xsv, heap, last'.z) /\ xs_size(xsv[last'.z]) = 0)
       => /\ ub' = "none"
          /\ xs_size(xsv'[last'.x]) = xs_size(xsv[last'.x])
          /\ Str(xsv', heap', last'.x) = Str(xsv, heap, last'.x)]_vars

\* C14: xs_trim never reduces capacity: the capacity reported after xs_trim
\* is the capacity reported before it, and a heap-backed value stays
\* heap-backed even when fewer than 16 bytes are left.
TrimKeepsCapacity ==
    [][(last'.op = "xs_trim" /\ Valid(xsv, heap, last'.x) /\ ub' = "none")
       => /\ xs_capacity(xsv'[last'.x]) = xs_capacity(xsv[last'.x])
          /\ xs_is_ptr(xsv'[last'.x]) = xs_is_ptr(xsv[last'.x])]_vars

\* C15: xs_free(x) on a value whose buffer, if it has one, is live. An Inline
\* value: nothing is freed. A Medium value: its buffer is freed, whatever
\* else points to it. A Large value: its count goes down by one, and its
\* buffer is freed if and only if the new count is <= 0; the values that
\* still share it see the new count. In all three cases x is left the empty
\* Inline value: not heap-backed, not large, length 0, capacity 15.
FreeReleasesByKind ==
    [][(last'.op = "xs_free" /\ ub = "none"
        /\ (xs_is_ptr(xsv[last'.x]) => Live(Machine(xsv, heap), ptr_field(xsv[last'.x])))
        /\ (Kind(xsv[last'.x]) = "large" => CanCount(Machine(xsv, heap), last'.x)))
       => LET x == last'.x
              id == ptr_field(xsv[x])
              others == Referents(xsv, id) \ {x}
              gone == /\ Len(last'.t.freed) = 1
                      /\ last'.t.freed[1].id = id
                      /\ \A y \in others : heap'[ptr_field(xsv'[y])].freed
          IN  /\ ub' = "none"
              /\ Kind(xsv[x]) = "inline" => last'.t.freed = <<>>
              /\ Kind(xsv[x]) = "medium" => gone
              /\ Kind(xsv[x]) = "large" =>
                    IF heap[id].rc - 1 <= 0 THEN gone
                    ELSE /\ last'.t.freed = <<>>
                         /\ \A y \in others :
                               /\ ~heap'[ptr_field(xsv'[y])].freed
                               /\ heap'[ptr_field(xsv'[y])].rc = heap[id].rc - 1
              /\ xsv'[x] = xs_literal_empty
              /\ ~xs_is_ptr(xsv'[x]) /\ ~xs_is_large_string(xsv'[x])
              /\ xs_size(xsv'[x]) = 0 /\ xs_capacity(xsv'[x]) = W(15)]_vars

\* xs_free has freed the buffer of a Large value whose count fell to 0.
FreedLargeAtCountZero ==
    /\ last.op = "xs_free" /\ ub = "none"
    /\ Len(last.t.freed) = 1
    /\ last.t.freed[1].extra = RefcntBytes /\ last.t.freed[1].rc = 0

\* C16: a failure of malloc is reported as out of memory: the operation in
\* which malloc returned NULL writes through no missing buffer (its run is
\* defined), and it leaves no heap-backed value whose pointer is null.
MallocFailureIsReported ==
    last.t.null =>
        /\ ub = "none"
        /\ \A x \in Names : xs_is_ptr(xsv[x]) => ptr_field(xsv[x]) # 0

\* C17: a requested length greater than MAX_STR_LEN = 2^54 - 1 is rejected
\* before any allocation is attempted: xs_grow given such a length asks
\* malloc for nothing.
TooLongIsRejectedBeforeAllocation ==
    (last.op = "xs_grow" /\ ~LeW(Target(last.arg), MAX_STR_LEN)) => last.t.req = <<>>

\* C18: xs_cow_lazy_copy(x) on a string x. If x is not Large or its count is
\* <= 1, it returns false and changes nothing. If x is Large with count > 1,
\* it returns true, the count of the old buffer goes down by exactly one, and
\* x is left a Large value with a fresh buffer of its own, of count 1, with
\* the length and the content x had before the call.
CowCopiesOnlyWhenShared ==
    [][(last'.op = "xs_cow_lazy_copy" /\ ub = "none" /\ Valid(xsv, heap, last'.x))
       => LET x == last'.x
              id == ptr_field(xsv[x])
              others == Referents(xsv, id) \ {x}
          IN  IF Kind(xsv[x]) = "large" /\ heap[id].rc > 1
              THEN /\ last'.t.cow
                   /\ ub' = "none"
                   /\ \A y \in others : heap'[ptr_field(xsv'[y])].rc = heap[id].rc - 1
                   /\ Kind(xsv'[x]) = "large"
                   /\ Referents(xsv', ptr_field(xsv'[x])) = {x}
                   /\ Unshared(xsv', heap', x)
                   /\ xs_size(xsv'[x]) = xs_size(xsv[x])
                   /\ Str(xsv', heap', x) = Str(xsv, heap, x)
              ELSE /\ ~last'.t.cow
                   /\ ub' = "none"
                   /\ xsv' = xsv /\ heap' = heap]_vars

\* C19: the terminator is always present: after every operation that
\* completes, for every value, the byte at index xs_size of xs_data lies in a
\* live object and is 0.
TerminatorIsPresent ==
    ub = "none" =>
        \A x \in Names :
            LET M == Machine(xsv, heap)
                n == xs_size(xsv[x])
            IN  /\ CanAccess(M, xs_data(M, x), n, 1)
                /\ MemRead(M, xs_data(M, x), n, 1) = <<0>>

\* C20: every byte xs_concat writes in its in-place branch lies inside the
\* storage the target owns at the time of the write, also when
\* xs_cow_lazy_copy has replaced a shared buffer after the capacity was read:
\* no xs_concat that took the in-place branch writes outside a live object.
InPlaceWritesStayInside ==
    (last.op = "xs_concat" /\ last.t.branch = "in place")
        => ub # "write outside a live object"

====
